---- MODULE Spec2Model ----
(***************************************************************************)
(* Model of the optimal batching proxy (src/proxy.py).                     *)
(*                                                                         *)
(* The proxy runs on one asyncio event loop, so the code between two       *)
(* awaits is one atomic step.  The dispatcher task suspends in exactly     *)
(* three places: the idle sleep (proxy.py:89,91), the backend POST         *)
(* (proxy.py:152) and the throttle backoff (proxy.py:170).  After a 200,   *)
(* another status or an exception, _process_batch returns without          *)
(* awaiting, so the next loop iteration (selection and POST) belongs to    *)
(* the same step.                                                          *)
(*                                                                         *)
(* The backend is the environment: it answers a POST with 200 and a        *)
(* results list, with 429, with another status, or the call raises.        *)
(***************************************************************************)
EXTENDS Integers, Sequences, FiniteSets, TLC

\* ---- bounds -------------------------------------------------------------
\* number of add_request calls explored, all backend outcomes allowed
MaxReq == 4

\* number of add_request calls explored when the backend only throttles
MaxQueue == 6

\* ---- program constants --------------------------------------------------
\* available_requests[:5]
MaxBatch == 5

\* sequences the clients submit; len() of a text is its cost key
Texts == {"a", "bb", "cc"}

\* labels of classification_server.py:47
Labels == {"code", "not code"}

\* a status that is neither 200 nor 429
OtherStatuses == {500}

\* exceptions client.post can raise (timeout, transport failure)
PostExceptions == {"ReadTimeout"}

VARIABLES
    pending_requests,     \* Dict[str, PendingRequest]: text -> record
    request_queue,        \* deque of texts
    running,              \* self.running
    client_closed,        \* self.client after aclose()
    batch_processor_task, \* where the dispatcher task is suspended
    batch,                \* argument of the _process_batch in progress
    sequences,            \* list sent in the POST in progress
    futures,              \* futures[f]: state of the f-th future created
    outstanding,          \* backend calls issued and not yet returned
    members,              \* futures registered under sequences at the POST
    available_requests,   \* texts the last selection collected, queue order
    waiting_before,       \* queue before the last selection, then arrivals
    throttled             \* futures that were in a batch answered 429

vars == <<pending_requests, request_queue, running, client_closed,
          batch_processor_task, batch, sequences, futures,
          outstanding, members, available_requests, waiting_before,
          throttled>>

\* ---- asyncio.Future -----------------------------------------------------
PendingFuture == [state |-> "PENDING", value |-> "none"]

Done(fut) == fut.state # "PENDING"

SetResult(fut, r) == [state |-> "RESULT", value |-> r]

SetException(fut, e) == [state |-> "EXCEPTION", value |-> e]

\* ---- PendingRequest -----------------------------------------------------
PendingRequest(sequence, f) ==
    [sequence |-> sequence, length |-> Len(sequence), future |-> f]

\* dict.pop(key)
Pop(p, key) == [k \in (DOMAIN p) \ {key} |-> p[k]]

\* ---- deque helpers ------------------------------------------------------
\* deque.remove(x): drops the first occurrence
RECURSIVE Remove(_, _)
Remove(q, x) ==
    IF q = <<>> THEN <<>>
    ELSE IF Head(q) = x THEN Tail(q)
    ELSE <<Head(q)>> \o Remove(Tail(q), x)

Contains(q, x) == \E i \in 1..Len(q) : q[i] = x

Min(a, b) == IF a < b THEN a ELSE b

\* the element of a one-element set.  TheOne({F(v) : v \in {e}}) is F(e)
\* with e computed once, like a local variable of the code
TheOne(S) == CHOOSE r \in S : TRUE

\* the FIFO variant: no sort, arrival order is kept
KeepArrivalOrder(s, p) == s

\* ---- list.sort(key=lambda x: x[1]) --------------------------------------
\* stable: equal lengths keep their order
RECURSIVE SortByLength(_, _)
SortByLength(s, p) ==
    IF s = <<>> THEN <<>>
    ELSE LET x == s[Len(s)]
         IN  TheOne({SelectSeq(rest, LAMBDA e : p[e].length <= p[x].length)
                     \o <<x>>
                     \o SelectSeq(rest, LAMBDA e : p[e].length > p[x].length) :
                        rest \in {SortByLength(SubSeq(s, 1, Len(s) - 1), p)}})

\* ---- _create_optimal_batch ----------------------------------------------
\* lines 107-112: every queued text that is a key of pending_requests
Available(q, p) == SelectSeq(q, LAMBDA s : s \in DOMAIN p)

\* removal that drops every queue entry equal to a batch entry
RemoveEvery(q, b) == SelectSeq(q, LAMBDA s : ~Contains(b, s))

\* lines 125-130: remove each batch entry from the queue, when present
RECURSIVE RemoveAll(_, _)
RemoveAll(q, b) ==
    IF b = <<>> THEN q
    ELSE TheOne({RemoveAll(rest, Tail(b)) :
                    rest \in {IF Contains(q, Head(b)) THEN Remove(q, Head(b))
                              ELSE q}})

\* slice one too long
TakeSix(sorted) == SubSeq(sorted, 1, Min(MaxBatch + 1, Len(sorted)))

TakeShortest(sorted) == SubSeq(sorted, 1, Min(MaxBatch, Len(sorted)))

\* a selector that waits until a full batch is available
CreateFullBatchOnly(q, p) ==
    LET available == Available(q, p)
        sorted    == SortByLength(available, p)
        b         == IF Len(available) < MaxBatch THEN <<>>
                     ELSE TakeShortest(sorted)
    IN  [batch |-> b, queue |-> RemoveAll(q, b), available |-> available]

CreateOptimalBatch(q, p) ==
    TheOne({
      TheOne({
        TheOne({[batch |-> b, queue |-> RemoveAll(q, b),
                 available |-> available] :
                   b \in {IF available = <<>> THEN <<>>
                          ELSE TakeShortest(sorted)}}) :
          sorted \in {SortByLength(available, p)}}) :
        available \in {Available(q, p)}})

\* the batch is posted in a task of its own and the loop sleeps instead of
\* awaiting the call
ProcessBatchDetached(b, p, out) ==
    LET seqs == SelectSeq(b, LAMBDA s : s \in DOMAIN p)
    IN  /\ batch_processor_task' = "idle_sleep"
        /\ outstanding' = out + 1
        /\ batch' = b
        /\ sequences' = seqs
        /\ members' = [i \in 1..Len(seqs) |-> p[seqs[i]].future]

\* ---- _process_batch up to the POST ---------------------------------------
\* lines 136-152, called with the batch b on the registry p while `out`
\* backend calls are outstanding.  The two early returns lead back to the
\* loop without an await, so the task stays runnable.
ProcessBatch(b, p, out) ==
    LET seqs == SelectSeq(b, LAMBDA s : s \in DOMAIN p)
    IN  IF b = <<>> \/ seqs = <<>>
        THEN /\ batch_processor_task' = "ready"
             /\ outstanding' = out
             /\ batch' = <<>>
             /\ sequences' = <<>>
             /\ members' = <<>>
        ELSE /\ batch_processor_task' = "post"
             /\ outstanding' = out + 1
             /\ batch' = b
             /\ sequences' = seqs
             /\ members' = [i \in 1..Len(seqs) |-> p[seqs[i]].future]

\* asyncio.sleep(0.001) of lines 89 and 91
IdleSleep(out) ==
    /\ batch_processor_task' = "idle_sleep"
    /\ outstanding' = out
    /\ batch' = <<>>
    /\ sequences' = <<>>
    /\ members' = <<>>
    /\ available_requests' = <<>>
    /\ waiting_before' = <<>>

\* ---- _batch_processor_loop ----------------------------------------------
\* One iteration from `while self.running` to the next await, run on the
\* registry p and the futures fs the caller has just produced, with `out`
\* backend calls outstanding.
LoopIteration(p, fs, out) ==
    /\ pending_requests' = p
    /\ futures' = fs
    /\ throttled' = {f \in throttled : ~Done(fs[f])}
    /\ IF ~running
       THEN /\ batch_processor_task' = "finished"
            /\ outstanding' = out
            /\ batch' = <<>>
            /\ sequences' = <<>>
            /\ members' = <<>>
            /\ UNCHANGED <<request_queue, available_requests, waiting_before>>
       ELSE IF request_queue = <<>>
       THEN /\ IdleSleep(out)
            /\ UNCHANGED request_queue
       ELSE \E sel \in {CreateOptimalBatch(request_queue, p)} :
                /\ request_queue' = sel.queue
                /\ IF sel.batch = <<>>
                   THEN IdleSleep(out)
                   ELSE /\ ProcessBatch(sel.batch, p, out)
                        /\ available_requests' = sel.available
                        /\ waiting_before' = request_queue

\* ---- lifecycle ----------------------------------------------------------
Init ==
    /\ pending_requests = << >>
    /\ request_queue = <<>>
    /\ running = TRUE
    /\ client_closed = FALSE
    /\ batch_processor_task = "None"
    /\ batch = <<>>
    /\ sequences = <<>>
    /\ futures = <<>>
    /\ outstanding = 0
    /\ members = <<>>
    /\ available_requests = <<>>
    /\ waiting_before = <<>>
    /\ throttled = {}

\* start(), called once by startup_event
Start ==
    /\ batch_processor_task = "None"
    /\ batch_processor_task' = "ready"
    /\ UNCHANGED <<pending_requests, request_queue, running, client_closed,
                   batch, sequences, futures, outstanding, members,
                   available_requests, waiting_before, throttled>>

\* stop(): the task is cancelled at the await it is suspended in;
\* CancelledError is not an Exception, so no handler of the task runs.
Stop ==
    /\ running
    /\ running' = FALSE
    /\ client_closed' = TRUE
    /\ IF batch_processor_task \in {"None", "finished"}
       THEN UNCHANGED <<batch_processor_task, outstanding>>
       ELSE /\ batch_processor_task' = "cancelled"
            /\ outstanding' = 0
    /\ UNCHANGED <<pending_requests, request_queue, batch, sequences, futures,
                   members, available_requests, waiting_before,
                   throttled>>

\* ---- add_request --------------------------------------------------------
AddRequest(sequence) ==
    /\ LET f == Len(futures) + 1
       IN  /\ futures' = Append(futures, PendingFuture)
           /\ pending_requests' =
                 [k \in (DOMAIN pending_requests) \cup {sequence} |->
                     IF k = sequence THEN PendingRequest(sequence, f)
                     ELSE pending_requests[k]]
    /\ request_queue' = Append(request_queue, sequence)
    /\ waiting_before' = IF batch_processor_task = "post"
                         THEN Append(waiting_before, sequence)
                         ELSE waiting_before
    /\ UNCHANGED <<running, client_closed, batch_processor_task, batch,
                   sequences, outstanding, members, available_requests,
                   throttled>>

\* ---- proxy_classify ------------------------------------------------------
\* lines 215-216: the handler awaiting `future` is cancelled (the caller
\* gave up); cancelling a task cancels the future it awaits.  Nothing in
\* the handler touches the registry or the queue.
CallerAbandons(f) ==
    /\ ~Done(futures[f])
    /\ futures' = [futures EXCEPT ![f] = [state |-> "CANCELLED", value |-> "none"]]
    /\ UNCHANGED <<pending_requests, request_queue, running, client_closed,
                   batch_processor_task, batch, sequences, outstanding,
                   members, available_requests, waiting_before, throttled>>

\* future f is done and neither the registry nor the call in flight refers
\* to it
Returnable(f) ==
    /\ Done(futures[f])
    /\ \A k \in DOMAIN pending_requests : pending_requests[k].future # f
    /\ \A i \in 1..Len(members) : members[i] # f

\* position of future f once the returnable futures before it are dropped
Rank(f) == Cardinality({g \in 1..f : ~Returnable(g)})

\* lines 212-213: `await future` returns in every handler whose future a
\* response has resolved; the event loop runs these wake-ups back to back.
\* Each handler answers its caller and drops the last reference to its
\* future.  Futures are numbered by position, so the remaining ones move
\* down.
HandlersReturn ==
    /\ \E f \in 1..Len(futures) : Returnable(f)
    /\ futures' = [i \in 1..Rank(Len(futures)) |->
                      futures[CHOOSE g \in 1..Len(futures) :
                                  ~Returnable(g) /\ Rank(g) = i]]
    /\ pending_requests' =
          [k \in DOMAIN pending_requests |->
              [pending_requests[k] EXCEPT !.future = Rank(@)]]
    /\ members' = [i \in 1..Len(members) |-> Rank(members[i])]
    /\ throttled' = {Rank(g) : g \in {h \in throttled : ~Returnable(h)}}
    /\ UNCHANGED <<request_queue, running, client_closed,
                   batch_processor_task, batch, sequences, outstanding,
                   available_requests, waiting_before>>

\* ---- the dispatcher task resumes ----------------------------------------
\* first step of the task created by start()
TaskRuns ==
    /\ batch_processor_task = "ready"
    /\ LoopIteration(pending_requests, futures, outstanding)
    /\ UNCHANGED <<running, client_closed>>

\* asyncio.sleep(0.001) of lines 89 and 91 expires
IdleSleepExpires ==
    /\ batch_processor_task = "idle_sleep"
    /\ LoopIteration(pending_requests, futures, outstanding)
    /\ UNCHANGED <<running, client_closed>>

\* asyncio.sleep(0.01) of line 170 expires
BackoffExpires ==
    /\ batch_processor_task = "backoff_sleep"
    /\ LoopIteration(pending_requests, futures, outstanding)
    /\ UNCHANGED <<running, client_closed>>

\* ---- _process_batch after the POST --------------------------------------
\* lines 159-163
RECURSIVE Distribute(_, _, _, _, _)
Distribute(i, seqs, results, p, fs) ==
    IF i > Len(seqs) THEN [pending |-> p, futures |-> fs]
    ELSE IF seqs[i] \in DOMAIN p
         THEN LET f == p[seqs[i]].future
              IN  TheOne({Distribute(i + 1, seqs, results,
                                     d.pending, d.futures) :
                     d \in {[pending |-> Pop(p, seqs[i]),
                             futures |->
                               IF i <= Len(results) /\ ~Done(fs[f])
                               THEN [fs EXCEPT
                                       ![f] = SetResult(fs[f], results[i])]
                               ELSE fs]}})
         ELSE Distribute(i + 1, seqs, results, p, fs)

\* lines 174-178 and 182-186
RECURSIVE FailAll(_, _, _, _)
FailAll(seqs, e, p, fs) ==
    IF seqs = <<>> THEN [pending |-> p, futures |-> fs]
    ELSE IF Head(seqs) \in DOMAIN p
         THEN LET f == p[Head(seqs)].future
              IN  FailAll(Tail(seqs), e, Pop(p, Head(seqs)),
                     IF ~Done(fs[f])
                     THEN [fs EXCEPT ![f] = SetException(fs[f], e)]
                     ELSE fs)
         ELSE FailAll(Tail(seqs), e, p, fs)

\* re-queue that skips a text the queue already holds
RECURSIVE RequeueUnlessQueued(_, _, _)
RequeueUnlessQueued(seqs, q, p) ==
    IF seqs = <<>> THEN q
    ELSE RequeueUnlessQueued(Tail(seqs),
                 IF Head(seqs) \in DOMAIN p /\ ~Contains(q, Head(seqs))
                 THEN <<Head(seqs)>> \o q ELSE q,
                 p)

\* lines 167-169: appendleft in iteration order
RECURSIVE Requeue(_, _, _)
Requeue(seqs, q, p) ==
    IF seqs = <<>> THEN q
    ELSE Requeue(Tail(seqs),
                 IF Head(seqs) \in DOMAIN p THEN <<Head(seqs)>> \o q ELSE q,
                 p)

\* result lists the backend may return for n sequences
ResultLists(n) ==
    UNION {[1..m -> Labels] : m \in {k \in (n - 1)..(n + 1) : k >= 0}}

Response200(results) ==
    /\ batch_processor_task = "post"
    /\ \E d \in {Distribute(1, sequences, results, pending_requests, futures)} :
           LoopIteration(d.pending, d.futures, outstanding - 1)
    /\ UNCHANGED <<running, client_closed>>

Response429 ==
    /\ batch_processor_task = "post"
    /\ request_queue' = Requeue(sequences, request_queue, pending_requests)
    /\ batch_processor_task' = "backoff_sleep"
    /\ outstanding' = outstanding - 1
    /\ throttled' = throttled \cup {members[i] : i \in 1..Len(members)}
    /\ batch' = <<>>
    /\ sequences' = <<>>
    /\ members' = <<>>
    /\ available_requests' = <<>>
    /\ waiting_before' = <<>>
    /\ UNCHANGED <<pending_requests, running, client_closed, futures>>

ResponseOther(status) ==
    /\ batch_processor_task = "post"
    /\ LET d == FailAll(sequences, "Server error", pending_requests, futures)
       IN  LoopIteration(d.pending, d.futures, outstanding - 1)
    /\ UNCHANGED <<running, client_closed>>

PostRaises(e) ==
    /\ batch_processor_task = "post"
    /\ LET d == FailAll(batch, e, pending_requests, futures)
       IN  LoopIteration(d.pending, d.futures, outstanding - 1)
    /\ UNCHANGED <<running, client_closed>>

\* ---- specifications -----------------------------------------------------
Submit(bound) == \E s \in Texts : Len(futures) < bound /\ AddRequest(s)

Respond200 ==
    \E results \in ResultLists(Len(sequences)) : Response200(results)

RespondOther == \E status \in OtherStatuses : ResponseOther(status)

Raise == \E e \in PostExceptions : PostRaises(e)

\* every operation, every backend outcome
Next ==
    \/ Start
    \/ Stop
    \/ Submit(MaxReq)
    \/ TaskRuns
    \/ IdleSleepExpires
    \/ BackoffExpires
    \/ Respond200
    \/ Response429
    \/ RespondOther
    \/ Raise

Spec == Init /\ [][Next]_vars

\* a running dispatcher in front of a backend that is busy with another
\* caller: every POST is answered 429
NextThrottled ==
    \/ Start
    \/ Submit(MaxQueue)
    \/ TaskRuns
    \/ IdleSleepExpires
    \/ BackoffExpires
    \/ Response429

SpecThrottled == Init /\ [][NextThrottled]_vars

\* a running dispatcher in front of a backend that answers every call:
\* 200 with one label per sequence, 429, another status, or a failure
RespondLabels ==
    \E results \in [1..Len(sequences) -> Labels] : Response200(results)

NextAnswering ==
    \/ Start
    \/ Submit(MaxReq)
    \/ TaskRuns
    \/ IdleSleepExpires
    \/ BackoffExpires
    \/ RespondLabels
    \/ Response429
    \/ RespondOther
    \/ Raise

SpecAnswering == Init /\ [][NextAnswering]_vars

\* every operation and every backend outcome, with callers that may give up
Abandon == \E f \in 1..Len(futures) : CallerAbandons(f)

NextAbandon ==
    \/ Next
    \/ Abandon

SpecAbandon == Init /\ [][NextAbandon]_vars

\* a running dispatcher in front of a backend that answers every call with
\* labels (here "code" for every sequence), under a stream of callers: ten
\* one-character texts and one two-character text, each submitted again once
\* its previous request is out of the registry and the queue, the first such
\* text of StreamOrder next.  The event loop runs the handlers woken by a
\* response before it accepts a new request.  The dispatcher
\* task and the backend are scheduled fairly; callers are free to stop
\* arriving.
StreamOrder == <<"cc", "a", "b", "c", "d", "e", "f", "g", "h", "i", "j">>

StreamTexts == {StreamOrder[i] : i \in 1..Len(StreamOrder)}

Fresh(s) == s \notin DOMAIN pending_requests /\ ~Contains(request_queue, s)

Arrive ==
    \E i \in 1..Len(StreamOrder) :
        /\ Fresh(StreamOrder[i])
        /\ \A j \in 1..(i - 1) : ~Fresh(StreamOrder[j])
        /\ Len(request_queue) < MaxQueue
        /\ \A f \in 1..Len(futures) : ~Returnable(f)
        /\ AddRequest(StreamOrder[i])

RespondCode == Response200([i \in 1..Len(sequences) |-> "code"])

NextStream ==
    \/ Start
    \/ Arrive
    \/ HandlersReturn
    \/ TaskRuns
    \/ IdleSleepExpires
    \/ RespondCode

SpecStream ==
    /\ Init
    /\ [][NextStream]_vars
    /\ WF_vars(Start)
    /\ WF_vars(TaskRuns)
    /\ WF_vars(IdleSleepExpires)
    /\ WF_vars(RespondCode)

\* ---- vocabulary of the properties ---------------------------------------
Futures == 1..Len(futures)

\* the record of future f is in the registry p
Registered(f, p) == \E k \in DOMAIN p : p[k].future = f

Range(s) == {s[i] : i \in 1..Len(s)}

\* multiset of the entries of a sequence
BagOfSeq(s) == [x \in Range(s) |-> Cardinality({i \in 1..Len(s) : s[i] = x})]

\* multiset of the entries of two sequences
BagOfBoth(s, t) == BagOfSeq(s \o t)

MaxLen(S) == CHOOSE n \in S : \A m \in S : m <= n

\* the dispatcher is running, asleep, and nothing selectable is queued
Quiescent ==
    /\ running
    /\ batch_processor_task = "idle_sleep"
    /\ Available(request_queue, pending_requests) = <<>>

\* the POST returned 200, another status or raised: the only steps that
\* remove records from the registry
CallReturns ==
    /\ batch_processor_task = "post"
    /\ pending_requests' # pending_requests
    /\ Len(futures') = Len(futures)

\* a step of the dispatcher task that runs a loop iteration
DispatcherStep ==
    \/ TaskRuns
    \/ IdleSleepExpires
    \/ BackoffExpires
    \/ CallReturns

\* s is t with some entries deleted
RECURSIVE IsSubsequence(_, _)
IsSubsequence(s, t) ==
    IF s = <<>> THEN TRUE
    ELSE IF t = <<>> THEN FALSE
    ELSE IF Head(s) = Head(t) THEN IsSubsequence(Tail(s), Tail(t))
    ELSE IsSubsequence(s, Tail(t))

TypeOK ==
    /\ DOMAIN pending_requests \subseteq Texts
    /\ \A i \in 1..Len(request_queue) : request_queue[i] \in Texts
    /\ running \in BOOLEAN
    /\ outstanding \in Nat

\* ---- C1 -----------------------------------------------------------------
\* C1: at every instant at most one backend call issued by the proxy is
\* outstanding.
OneInFlight == outstanding <= 1

\* a call is outstanding while selectable requests wait in the queue
OneInFlightWitness ==
    /\ outstanding = 1
    /\ batch_processor_task = "post"
    /\ Available(request_queue, pending_requests) # <<>>

\* ---- C2 -----------------------------------------------------------------
\* C2: no lost request.  With the dispatcher running and the backend
\* answering every call, once the dispatcher has nothing left to select,
\* every accepted submit has its completion resolved.
NoLostRequest ==
    Quiescent => \A f \in Futures : Done(futures[f])

\* ---- C3 -----------------------------------------------------------------
\* C3: positional fan-out.  When the call returns 200 with one label per
\* sent sequence, the request sent at position i receives exactly L[i].
PositionalFanOut ==
    [][\A L \in [1..Len(sequences) -> Labels] :
          Response200(L) =>
             \A i \in 1..Len(sequences) :
                futures'[members[i]] = SetResult(futures[members[i]], L[i])]_vars

\* ---- C4 -----------------------------------------------------------------
\* C4: throttle preservation.  The step that handles a 429 resolves no
\* completion, removes no record, and leaves in the queue the multiset that
\* waited before the batch was selected plus the arrivals since.
ThrottlePreservation ==
    [][(batch_processor_task = "post" /\ batch_processor_task' = "backoff_sleep")
          => /\ futures' = futures
             /\ pending_requests' = pending_requests
             /\ BagOfSeq(request_queue') = BagOfSeq(waiting_before)]_vars

\* a throttled batch is back in the queue together with a later arrival
ThrottlePreservationWitness ==
    /\ batch_processor_task = "backoff_sleep"
    /\ throttled # {}
    /\ Len(request_queue) > Cardinality(throttled)
    /\ \A f \in throttled : ~Done(futures[f]) /\ Registered(f, pending_requests)

\* ---- C5 -----------------------------------------------------------------
\* C5: every list of sequences sent to the backend has between 1 and 5
\* elements.
BatchSizeBound ==
    batch_processor_task = "post" =>
        /\ 1 <= Len(sequences)
        /\ Len(sequences) <= 5

\* a full batch is in flight and a sixth request stayed behind
BatchSizeBoundWitness ==
    /\ batch_processor_task = "post"
    /\ Len(sequences) = 5
    /\ Len(available_requests) > 5

\* ---- C6 -----------------------------------------------------------------
\* C6: selector optimality.  The longest sequence of the dispatched batch is
\* no longer than the longest sequence of any other selection of as many
\* waiting requests.
SelectorOptimality ==
    batch_processor_task = "post" =>
        \A I \in SUBSET (1..Len(available_requests)) :
            Cardinality(I) = Len(batch) =>
                MaxLen({Len(batch[i]) : i \in 1..Len(batch)})
                    <= MaxLen({Len(available_requests[i]) : i \in I})

\* the oldest waiter is the longest and is left behind by the batch
SelectorOptimalityWitness ==
    /\ batch_processor_task = "post"
    /\ Len(available_requests) > Len(batch)
    /\ Len(available_requests[1]) > MaxLen({Len(batch[i]) : i \in 1..Len(batch)})

\* ---- C7 -----------------------------------------------------------------
\* C7: no deduplication.  A submit creates an independent completion: every
\* unresolved request that had its record in the registry before the submit
\* still has it afterwards.
NoDeduplication ==
    [][Len(futures') = Len(futures) + 1 =>
          \A f \in Futures :
             Registered(f, pending_requests) =>
                Registered(f, pending_requests')]_vars

\* ---- C8 -----------------------------------------------------------------
\* C8: shutdown drain.  The step that stops the proxy resolves every
\* completion still pending with a Cancelled error.
ShutdownDrain ==
    [][(running /\ ~running') =>
          \A f \in Futures :
             ~Done(futures[f]) =>
                futures'[f] = SetException(futures[f], "Cancelled")]_vars

\* ---- C9 -----------------------------------------------------------------
\* C9: throttle recovery.  With the dispatcher running and the backend
\* answering every call, once the dispatcher has nothing left to select no
\* member of a throttled batch is still unresolved.
ThrottleRecovery ==
    Quiescent => throttled = {}

\* ---- C10 ----------------------------------------------------------------
\* C10: batch-local errors.  When the call fails, every member of the batch
\* is resolved with an error and removed, no other request is resolved or
\* removed, only the next batch leaves the queue, and the loop goes on.
BatchLocalErrors ==
    [][(RespondOther \/ Raise) =>
          LET M == Range(members)
          IN  /\ \A f \in M : /\ futures'[f].state = "EXCEPTION"
                              /\ ~Registered(f, pending_requests')
              /\ \A f \in Futures \ M :
                    /\ futures'[f] = futures[f]
                    /\ Registered(f, pending_requests)
                          => Registered(f, pending_requests')
              /\ BagOfSeq(request_queue) = BagOfBoth(request_queue', batch')
              /\ batch_processor_task' \in {"post", "idle_sleep"}]_vars

\* ---- C11 ----------------------------------------------------------------
\* C11: result-count mismatch.  When the call returns 200 with a results
\* list whose length differs from the number of sequences sent, every member
\* of the batch is resolved with an Internal error and the loop goes on.
ResultCountMismatch ==
    [][\A L \in ResultLists(Len(sequences)) :
          (Len(L) # Len(sequences) /\ Response200(L)) =>
             /\ \A f \in Range(members) :
                   ~Done(futures[f]) =>
                      futures'[f] = SetException(futures[f], "Internal")
             /\ batch_processor_task' \in {"post", "idle_sleep"}]_vars

\* ---- C12 ----------------------------------------------------------------
\* C12: cancellation.  A request whose caller gave up before the batch was
\* selected is skipped by the selector: no batch sent to the backend holds
\* the sequence of a request that was already cancelled at selection.
SkipsAbandoned ==
    [][(DispatcherStep /\ batch_processor_task' = "post") =>
          \A i \in 1..Len(members') :
             futures'[members'[i]].state # "CANCELLED"]_vars

\* ---- C13 ----------------------------------------------------------------
\* C13: re-queue order on 429.  After a throttled dispatch the ids of the
\* batch are at the front of the queue, ahead of every id that was waiting,
\* in the order they had in the batch.
RequeueOrder ==
    [][(batch_processor_task = "post" /\ batch_processor_task' = "backoff_sleep")
          => request_queue' = sequences \o request_queue]_vars

\* ---- C14 ----------------------------------------------------------------
\* C14: whenever the dispatcher is suspended (idle sleep, backend call or
\* throttle backoff), every id in the queue refers to a record of the
\* registry.
QueueRefersToRegistry ==
    batch_processor_task \in {"idle_sleep", "post", "backoff_sleep"} =>
        \A i \in 1..Len(request_queue) :
            request_queue[i] \in DOMAIN pending_requests

\* ---- C15 ----------------------------------------------------------------
\* C15: a request's record is in the registry if and only if its completion
\* is unresolved.
RegistryIffUnresolved ==
    \A f \in Futures : Registered(f, pending_requests) <=> ~Done(futures[f])

\* ---- C16 ----------------------------------------------------------------
\* C16: arrival order within a length class.  A request is never dispatched
\* while an older request of the same length, collected by the same
\* selection, is left waiting.
ArrivalOrderInClass ==
    batch_processor_task = "post" =>
        \A k1, k2 \in DOMAIN pending_requests :
            LET r1 == pending_requests[k1]
                r2 == pending_requests[k2]
            IN  ( /\ r1.length = r2.length
                  /\ r1.future < r2.future
                  /\ r2.future \in Range(members)
                  /\ k1 \in Range(available_requests) )
                => r1.future \in Range(members)

\* ---- C17 ----------------------------------------------------------------
\* C17: no waiting for a full batch.  A loop iteration of the running
\* dispatcher that finds c >= 1 queued requests with a record posts a batch
\* of exactly min(5, c) of them.
NoWaitForFullBatch ==
    [][(DispatcherStep /\ running) =>
          LET c == Len(Available(request_queue, pending_requests'))
          IN  c >= 1 =>
                 /\ batch_processor_task' = "post"
                 /\ Len(sequences') = Min(5, c)
                 /\ Len(request_queue') = Len(request_queue) - Min(5, c)]_vars

\* six requests waited: five are in flight, the sixth stays queued
NoWaitForFullBatchWitness ==
    /\ batch_processor_task = "post"
    /\ Len(available_requests) = 6
    /\ Len(sequences) = 5
    /\ Len(request_queue) = 1

\* ---- C18 ----------------------------------------------------------------
\* a queued text with a record in the registry
Waiting(s) == Contains(request_queue, s) /\ s \in DOMAIN pending_requests

\* the text is in the batch of the call in flight
Selected(s) == batch_processor_task = "post" /\ Contains(batch, s)

ArrivalNotLonger(s) ==
    /\ Arrive
    /\ Len(request_queue'[Len(request_queue')]) <= Len(s)

SelectionFrame ==
    [][(DispatcherStep /\ batch_processor_task' = "post") =>
          /\ BagOfSeq(request_queue) = BagOfBoth(request_queue', batch')
          /\ IsSubsequence(request_queue', request_queue)
          /\ ~CallReturns =>
                /\ pending_requests' = pending_requests
                /\ futures' = futures]_vars

\* a batch is in flight and another entry with the text of one of its
\* members is still queued
SelectionFrameWitness ==
    /\ batch_processor_task = "post"
    /\ Len(batch) = MaxBatch
    /\ \E i \in 1..Len(request_queue) : request_queue[i] \in Range(batch)

\* ---- C20 ----------------------------------------------------------------
\* C20: arrivals during a backend call.  The outcome of a call resolves
\* only completions of requests that were sent in it: a request that was
\* not among its members, as every request submitted during the call, keeps
\* its completion untouched.
ArrivalsDuringCall ==
    [][CallReturns =>
          \A f \in Futures \ Range(members) : futures'[f] = futures[f]]_vars
====
